---- MODULE Spec2Model ----
(***************************************************************************)
(* A model of src/modulation.py: class DigitalModulation, its constructor, *)
(* get_carrier and the four modulators get_ask_mod, get_psk_mod,           *)
(* get_fsk_mod and get_qam_mod with get_qam_modulation_mapping.            *)
(*                                                                         *)
(* Units.  Frequencies are counted in units of 125 kHz and durations in    *)
(* units of 8 us, so that the product carrier_freq_hz * demo_duration_s is *)
(* the (integer) number of carrier periods: 1e6 Hz is 8, 8e-6 s is 1 and   *)
(* 1e6 * 8e-6 is 8.  Floating point values are modelled as exact numbers.  *)
(*                                                                         *)
(* Samples.  A sample of a waveform is not a real number here but the      *)
(* expression that produced it: Zero for the value zeros_like() put there, *)
(* or a record naming the scheme, the symbol index the value was           *)
(* synthesised for and the mapped parameters (amplitude, phase, frequency  *)
(* or (I, Q)) of that symbol.  The sample instant is the position.         *)
(***************************************************************************)
EXTENDS Integers, Sequences, FiniteSets, TLC

\* self._oversampling = int(32)
Oversampling == 32
\* self.carrier_freq_hz = 1e6, in units of 125 kHz
DefaultCarrierFreq == 8
\* self.demo_duration_s = 8e-6, in units of 8 us
DefaultDuration == 1
\* packbits() yields uint8 values: arithmetic that stays in uint8 is mod 256
UInt8Mod == 256
\* packbits() packs 8 bits into each byte
ByteBits == 8

\* Bounds of the exploration
MaxBits == 4
MaxLongBits == 9
MaxB == 9

\* Constructor arguments explored
ArgFreqs == {1, 8}
ArgDurations == {1, 2}
\* Values the public field carrier_freq_hz is set to after construction
FieldFreqs == {1, 2, 8}
\* frequency_span arguments of get_fsk_mod (floats, same unit as frequencies)
Spans == {2}
\* The two integer promotion rules a NumPy build can have for
\* uint8 scalar + Python int: "legacy" (value based, NumPy 1.x: the sum is
\* an int64) and "nep50" (NumPy 2.x: the sum stays uint8 and wraps)
Promotions == {"legacy", "nep50"}

Modulators == {"ask", "psk", "fsk", "qam"}

BitVectors(n) == UNION {[1..l -> {0, 1}] : l \in 1..n}

VARIABLES
    arg_carrier_freq_hz,  \* constructor argument carrier_freq_hz
    arg_demo_duration_s,  \* constructor argument demo_duration_s
    carrier_freq_hz,      \* self.carrier_freq_hz
    demo_duration_s,      \* self.demo_duration_s
    sample_freq_hz,       \* self._sample_freq_hz
    sample_period_s,      \* self._sample_period_s, a fraction <<num, den>>
    start_phase_rad,      \* self.start_phase_rad
    sample_points_s,      \* len(self.sample_points_s); point k is k * period
    promotion,            \* promotion rule of the NumPy build in use
    pc,                   \* "idle", "loop" (in a modulator's for loop), "done"
    op,                   \* the last method called
    data_vec,             \* its argument data_vec
    bits_per_symbol_log2, \* its argument bits_per_symbol_log2
    frequency_span,       \* its argument frequency_span (get_fsk_mod)
    outcome,              \* "none", "running", "error" or "returned"
    mod_samples_per_bit,  \* local of the running call
    rows,                 \* the reshaped data (ask_data_vec, data_vec_qam...)
    idx,                  \* loop index of enumerate()
    modulated_values_v,   \* the array under construction
    symbols,              \* history: packbits(data)[0] of each iteration
    modulated,            \* history: modulated_value of each iteration
    mapped,               \* history: mapped parameters of each iteration
    ret                   \* the value the last call returned, <<>> if none

vars == <<arg_carrier_freq_hz, arg_demo_duration_s, carrier_freq_hz,
          demo_duration_s, sample_freq_hz, sample_period_s, start_phase_rad,
          sample_points_s, promotion, pc, op, data_vec, bits_per_symbol_log2,
          frequency_span, outcome, mod_samples_per_bit, rows, idx,
          modulated_values_v, symbols, modulated, mapped, ret>>

config == <<arg_carrier_freq_hz, arg_demo_duration_s, demo_duration_s,
            sample_freq_hz, sample_period_s, start_phase_rad,
            sample_points_s, promotion>>

----------------------------------------------------------------------------
\* Helpers

RECURSIVE Pow2(_)
Pow2(n) == IF n <= 0 THEN 1 ELSE 2 * Pow2(n - 1)

Min(a, b) == IF a < b THEN a ELSE b

RECURSIVE Flatten(_)
\* numpy flattens a 2-d group in row-major order before packing
Flatten(m) == IF m = <<>> THEN <<>> ELSE Head(m) \o Flatten(Tail(m))

RECURSIVE WeightedSum(_, _, _)
\* sum of bits[j] * weight(j) for j in from..Len(bits), weight doubling
WeightedSum(bits, from, weight) ==
    IF from > Len(bits) THEN 0
    ELSE bits[from] * weight + WeightedSum(bits, from + 1, 2 * weight)

\* One byte of packbits(..., bitorder='big'): first bit is most significant
ByteBig(bits) ==
    WeightedSum([j \in 1..ByteBits |->
                    IF ByteBits + 1 - j <= Len(bits)
                    THEN bits[ByteBits + 1 - j] ELSE 0], 1, 1)

\* One byte of packbits(..., bitorder='little'): first bit is least
\* significant, missing bits are zero
ByteLittle(bits) == WeightedSum(bits, 1, 1)

PackBitsBig(flat) ==
    [b \in 1..((Len(flat) + ByteBits - 1) \div ByteBits) |->
        ByteBig(SubSeq(flat, (b - 1) * ByteBits + 1,
                       Min(b * ByteBits, Len(flat))))]

\* packbits(data, bitorder='little') of a flattened boolean array: one
\* uint8 per started group of 8 bits
PackBits(flat) ==
    [b \in 1..((Len(flat) + ByteBits - 1) \div ByteBits) |->
        ByteLittle(SubSeq(flat, (b - 1) * ByteBits + 1,
                          Min(b * ByteBits, Len(flat))))]

\* uint8 scalar + 1 under the build's promotion rule
AddOne(v) ==
    IF promotion = "legacy" THEN v + 1 ELSE (v + 1) % UInt8Mod

\* The result of a reshape: the rows, or the ValueError it raised
Raised == [err |-> TRUE, rows |-> <<>>]
Rows(r) == [err |-> FALSE, rows |-> r]

ReshapeTruncating(vec, cols) ==
    IF cols <= 0 THEN Raised
    ELSE Rows([r \in 1..(Len(vec) \div cols) |->
                 SubSeq(vec, (r - 1) * cols + 1, r * cols)])

\* reshape(vec, (-1, cols)) of a non-empty vector: the rows, or a
\* ValueError when the size is no multiple of cols or cols is 0
Reshape(vec, cols) ==
    IF cols <= 0 \/ Len(vec) % cols # 0 THEN Raised
    ELSE Rows([r \in 1..(Len(vec) \div cols) |->
                 SubSeq(vec, (r - 1) * cols + 1, r * cols)])

\* reshape(vec, (-1, 2, half)): rows of two half-groups, or a ValueError
Reshape3(vec, half) ==
    LET flat == Reshape(vec, 2 * half)
    IN  IF flat.err THEN Raised
        ELSE Rows([r \in 1..Len(flat.rows) |->
                     <<SubSeq(flat.rows[r], 1, half),
                       SubSeq(flat.rows[r], half + 1, 2 * half)>>])

\* The grouping step of each modulator: every row is a list of groups of
\* bits (one group, for qam the two half-groups)
Grouping(m, vec, B) ==
    IF m = "qam" THEN Reshape3(vec, B \div 2)
    ELSE LET r == Reshape(vec, B)
         IN IF r.err THEN Raised
            ELSE Rows([i \in 1..Len(r.rows) |-> <<r.rows[i]>>])

\* Carrier periods per symbol: the divisor is the number of symbols
PeriodsPerSymbol(vec, B) ==
    IF B <= 0 \/ Len(vec) \div B = 0 THEN 0
    ELSE (carrier_freq_hz * demo_duration_s) \div (Len(vec) \div B)

\* periods_per_bit = (carrier_freq_hz * demo_duration_s) // len(data_vec)
PeriodsPerBit(vec, B) ==
    (carrier_freq_hz * demo_duration_s) \div Len(vec)

\* mod_samples_per_bit = int(periods_per_bit * self._oversampling)
ModSamplesPerBit(vec, B) == PeriodsPerBit(vec, B) * Oversampling

Zero == [kind |-> "zero", idx |-> -1, p |-> <<0, 0>>, f |-> 0, span |-> 0]

\* zeros_like(self.sample_points_s)
ZerosLike(n) == [k \in 1..n |-> Zero]

StartSampleIdx(i) == i * Oversampling

StopSampleIdxInclusive(i, seg) == StartSampleIdx(i) + seg + 1

\* stop_sample_idx = start_sample_idx + mod_samples_per_bit
StopSampleIdx(i, seg) == StartSampleIdx(i) + seg

\* A list-like slice assignment: the array grows to hold the slice
AssignSliceGrowing(arr, start, stop, v) ==
    [k \in 1..(IF stop > Len(arr) /\ stop > start THEN stop ELSE Len(arr)) |->
        IF start < k /\ k <= stop THEN v ELSE arr[k]]

\* A slice assignment that leaves already written samples alone
AssignSliceKeeping(arr, start, stop, v) ==
    [k \in 1..Len(arr) |->
        IF start < k /\ k <= stop /\ arr[k] = Zero THEN v ELSE arr[k]]

\* arr[start:stop] = v for 0-based start and stop: numpy clips the slice to
\* the array and the right-hand side is computed from the equally clipped
\* sample_points_s[start:stop], so the shapes always agree
AssignSlice(arr, start, stop, v) ==
    [k \in 1..Len(arr) |->
        IF start < k /\ k <= stop THEN v ELSE arr[k]]

\* get_qam_modulation_mapping tables, entry value + 1 holds key value
Table4 == << <<1, 1>>, <<1, -1>>, <<-1, 1>>, <<-1, -1>> >>
Table8 == << <<3, 0>>, <<1, 1>>, <<-1, 1>>, <<0, 3>>,
             <<1, -1>>, <<0, -3>>, <<-3, 0>>, <<-1, -1>> >>
Table16 == << <<1, 1>>, <<3, 1>>, <<1, 3>>, <<3, 3>>,
              <<1, -1>>, <<3, -1>>, <<1, -3>>, <<3, -3>>,
              <<-1, 1>>, <<-3, 1>>, <<-1, 3>>, <<-3, 3>>,
              <<-1, -1>>, <<-3, -1>>, <<-1, -3>>, <<-3, -3>> >>

QamTable(qam_idx) ==
    IF qam_idx = Len(Table4) THEN Table4
    ELSE IF qam_idx = Len(Table8) THEN Table8
    ELSE IF qam_idx = Len(Table16) THEN Table16
    ELSE <<>>

\* The values get_qam_modulation_mapping has an entry for
QamKeys(qam_idx) == {k - 1 : k \in DOMAIN QamTable(qam_idx)}

\* get_qam_modulation_mapping(value, qam_idx): (I, Q), (0, 0) when unmapped
QamMapping(value, qam_idx) ==
    IF value \in QamKeys(qam_idx) THEN QamTable(qam_idx)[value + 1]
    ELSE <<0, 0>>

\* modulated_value of one loop iteration from the packed byte
ModulatedValue(m, packed) ==
    IF m \in {"psk", "qam"} THEN AddOne(packed) ELSE packed

\* The mapped parameters of a symbol:
\*   ask: amplitude  <<modulated_value + 1, 2**B>>          (a fraction)
\*   psk: phase turn <<modulated_value, 2**B>>              (a fraction)
\*   fsk: frequency offset <<modulated_value, 2**B - 1>>    (times span)
\*   qam: <<I, Q>>
Mapping(m, value, B) ==
    CASE m = "ask" -> <<AddOne(value), Pow2(B)>>
      [] m = "psk" -> <<value, Pow2(B)>>
      [] m = "fsk" -> <<value, Pow2(B) - 1>>
      [] OTHER     -> QamMapping(value, Pow2(B))

\* The value written for symbol i: the oscillation runs at the stored
\* carrier frequency (fsk: at an offset p[1] * span / p[2] above
\* carrier_freq_hz - span / 2), sampled at the instants of the time base
Sample(m, i, p, span) ==
    [kind |-> m, idx |-> i, p |-> p, f |-> carrier_freq_hz, span |-> span]

----------------------------------------------------------------------------
\* Construction

\* len(arange(0, demo_duration_s, 1 / (carrier_freq_hz * oversampling)))
SamplePoints(cf, dur) == dur * cf * Oversampling

\* __init__(carrier_freq_hz = cf, demo_duration_s = dur)
Constructed(cf, dur) ==
    /\ arg_carrier_freq_hz = cf
    /\ arg_demo_duration_s = dur
    /\ carrier_freq_hz = DefaultCarrierFreq
    /\ demo_duration_s = DefaultDuration
    /\ sample_freq_hz = cf * Oversampling
    /\ sample_period_s = <<1, cf * Oversampling>>
    /\ start_phase_rad = 0
    /\ sample_points_s = SamplePoints(cf, dur)

NoCall ==
    /\ pc = "idle"
    /\ op = "none"
    /\ data_vec = <<>>
    /\ bits_per_symbol_log2 = 0
    /\ frequency_span = 0
    /\ outcome = "none"
    /\ mod_samples_per_bit = 0
    /\ rows = <<>>
    /\ idx = 0
    /\ modulated_values_v = <<>>
    /\ symbols = <<>>
    /\ modulated = <<>>
    /\ mapped = <<>>
    /\ ret = <<>>

Init ==
    /\ \E cf \in ArgFreqs, dur \in ArgDurations : Constructed(cf, dur)
    /\ promotion \in Promotions
    /\ NoCall

\* One engine on the shortest time base, for the runs with long vectors
InitShort ==
    /\ Constructed(1, 1)
    /\ promotion \in Promotions
    /\ NoCall

----------------------------------------------------------------------------
\* Operations

\* get_carrier()
GetCarrier ==
    /\ pc = "idle"
    /\ op' = "carrier"
    /\ outcome' = "returned"
    /\ ret' = [k \in 1..sample_points_s |->
                 [kind |-> "carrier", idx |-> -1, p |-> <<1, 1>>,
                  f |-> carrier_freq_hz, span |-> 0]]
    /\ data_vec' = <<>>
    /\ bits_per_symbol_log2' = 0
    /\ frequency_span' = 0
    /\ mod_samples_per_bit' = 0
    /\ rows' = <<>>
    /\ idx' = 0
    /\ modulated_values_v' = <<>>
    /\ symbols' = <<>>
    /\ modulated' = <<>>
    /\ mapped' = <<>>
    /\ pc' = "done"
    /\ UNCHANGED <<config, carrier_freq_hz>>

\* A caller assigns the public field carrier_freq_hz between two calls
SetCarrierFreq(f) ==
    /\ pc = "idle"
    /\ f # carrier_freq_hz
    /\ carrier_freq_hz' = f
    /\ UNCHANGED <<config, pc, op, data_vec, bits_per_symbol_log2,
                   frequency_span, outcome, mod_samples_per_bit, rows, idx,
                   modulated_values_v, symbols, modulated, mapped, ret>>

\* get_ask_mod / get_psk_mod / get_fsk_mod / get_qam_mod up to the loop:
\* timing, zeros_like and the grouping, which raises or yields the rows
Call(m, vec, B, span) ==
    /\ pc = "idle"
    /\ op' = m
    /\ data_vec' = vec
    /\ bits_per_symbol_log2' = B
    /\ frequency_span' = span
    /\ mod_samples_per_bit' = ModSamplesPerBit(vec, B)
    /\ idx' = 0
    /\ symbols' = <<>>
    /\ modulated' = <<>>
    /\ mapped' = <<>>
    /\ ret' = <<>>
    /\ LET g == Grouping(m, vec, B)
       IN  IF g.err
           THEN /\ outcome' = "error"
                /\ pc' = "done"
                /\ rows' = <<>>
                /\ modulated_values_v' = <<>>
           ELSE /\ outcome' = "running"
                /\ pc' = "loop"
                /\ rows' = g.rows
                /\ modulated_values_v' = ZerosLike(sample_points_s)
    /\ UNCHANGED <<config, carrier_freq_hz>>

\* One iteration of "for idx, data in enumerate(...)"
LoopStep ==
    /\ pc = "loop"
    /\ idx < Len(rows)
    /\ LET data   == rows[idx + 1]
           packed == PackBits(Flatten(data))[1]
           value  == ModulatedValue(op, packed)
           p      == Mapping(op, value, bits_per_symbol_log2)
       IN  /\ symbols' = Append(symbols, packed)
           /\ modulated' = Append(modulated, value)
           /\ mapped' = Append(mapped, p)
           /\ modulated_values_v' =
                AssignSlice(modulated_values_v, StartSampleIdx(idx),
                            StopSampleIdx(idx, mod_samples_per_bit),
                            Sample(op, idx, p, frequency_span))
    /\ idx' = idx + 1
    /\ UNCHANGED <<config, carrier_freq_hz, pc, op, data_vec,
                   bits_per_symbol_log2, frequency_span, outcome,
                   mod_samples_per_bit, rows, ret>>

\* return modulated_values_v
Return ==
    /\ pc = "loop"
    /\ idx = Len(rows)
    /\ pc' = "done"
    /\ outcome' = "returned"
    /\ ret' = modulated_values_v
    /\ UNCHANGED <<config, carrier_freq_hz, op, data_vec,
                   bits_per_symbol_log2, frequency_span,
                   mod_samples_per_bit, rows, idx, modulated_values_v,
                   symbols, modulated, mapped>>

\* The call is over: the caller holds the returned array (or the exception)
\* and the call's locals are gone; the engine is as it was before the call
Release ==
    /\ pc = "done"
    /\ pc' = "idle"
    /\ op' = "none"
    /\ data_vec' = <<>>
    /\ bits_per_symbol_log2' = 0
    /\ frequency_span' = 0
    /\ outcome' = "none"
    /\ mod_samples_per_bit' = 0
    /\ rows' = <<>>
    /\ idx' = 0
    /\ modulated_values_v' = <<>>
    /\ symbols' = <<>>
    /\ modulated' = <<>>
    /\ mapped' = <<>>
    /\ ret' = <<>>
    /\ UNCHANGED <<config, carrier_freq_hz>>

\* A caller calls one of the modulators between two calls
Modulate(vecs) ==
    /\ pc = "idle"
    /\ \E m \in Modulators, vec \in vecs, B \in 0..MaxB :
          \E span \in (IF m = "fsk" THEN Spans ELSE {0}) :
             Call(m, vec, B, span)

ChangeField == \E f \in FieldFreqs : SetCarrierFreq(f)

Next ==
    \/ GetCarrier
    \/ ChangeField
    \/ Modulate(BitVectors(MaxBits))
    \/ LoopStep
    \/ Return
    \/ Release

Spec == Init /\ [][Next]_vars

NextLong ==
    \/ Modulate(BitVectors(MaxLongBits))
    \/ LoopStep
    \/ Return
    \/ Release

\* The modulators on vectors long enough for 8-bit symbols
SpecLong == InitShort /\ [][NextLong]_vars

----------------------------------------------------------------------------
\* Properties

\* The documented range of bits_per_symbol_log2 (qam: even, at least 2)
ValidB(m, B) ==
    IF m = "qam" THEN B \in 2..8 /\ B % 2 = 0 ELSE B \in 1..8

\* A modulator call that passed the grouping step
Grouped == op \in Modulators /\ outcome \in {"running", "returned"}

RECURSIVE LittleEndian(_, _, _, _)
\* sum of vec[base + j] * 2^j for j in from..(B - 1), vec indexed from 0
LittleEndian(vec, base, from, B) ==
    IF from >= B THEN 0
    ELSE vec[base + from + 1] * Pow2(from)
         + LittleEndian(vec, base, from + 1, B)

\* The symbols whose write range [i * oversampling, i * oversampling + seg)
\* holds sample k, among the first n symbols
Writers(k, n, seg) ==
    {i \in 0..(n - 1) : i * Oversampling <= k /\ k < i * Oversampling + seg}

Largest(S) == CHOOSE x \in S : \A y \in S : y <= x

\* C1: the time base keeps the length it was constructed with, and every
\* waveform a call returns (carrier, ask, psk, fsk, qam) has that length,
\* also when there are more symbols than slots of Oversampling samples.
C1_WaveformLength ==
    /\ sample_points_s =
         SamplePoints(arg_carrier_freq_hz, arg_demo_duration_s)
    /\ pc = "loop" => Len(modulated_values_v) = sample_points_s
    /\ outcome = "returned" => Len(ret) = sample_points_s

C1_Witness ==
    /\ Grouped
    /\ outcome = "returned"
    /\ ValidB(op, bits_per_symbol_log2)
    /\ Len(rows) * Oversampling > sample_points_s
    /\ mod_samples_per_bit > 0
    /\ Len(ret) = sample_points_s

\* C2: a modulator called with a valid B and a non-empty bit sequence whose
\* length is no multiple of B raises at the grouping step and returns no
\* waveform.
C2_PartialGroupRaises ==
    (/\ op \in Modulators
     /\ outcome # "none"
     /\ ValidB(op, bits_per_symbol_log2)
     /\ Len(data_vec) % bits_per_symbol_log2 # 0)
    => (outcome = "error" /\ pc = "done" /\ ret = <<>> /\ symbols = <<>>)

C2_Witness ==
    /\ op = "ask"
    /\ data_vec = <<0, 1, 1>>
    /\ bits_per_symbol_log2 = 2
    /\ outcome = "error"

\* C3: ask, psk and fsk called with B outside 1..8 raise, whatever the bit
\* sequence is.
C3_InvalidBRaises ==
    (/\ op \in {"ask", "psk", "fsk"}
     /\ outcome # "none"
     /\ bits_per_symbol_log2 \notin 1..8)
    => outcome = "error"

\* C4, as claimed: the periods per symbol are
\* floor(carrier_freq_hz * duration_s / (len(bits) / B)) and the segment
\* length is that value times the oversampling.
C4_DivisorIsSymbols ==
    (/\ Grouped
     /\ bits_per_symbol_log2 >= 1
     /\ Len(data_vec) % bits_per_symbol_log2 = 0)
    => mod_samples_per_bit =
         ((carrier_freq_hz * demo_duration_s)
            \div (Len(data_vec) \div bits_per_symbol_log2)) * Oversampling

\* C4, amended: the periods per symbol are
\* floor(carrier_freq_hz * duration_s / len(bits)): the divisor is the
\* number of bits, which is the number of symbols only for B = 1.  The
\* segment written for a symbol is that value times the oversampling,
\* clipped to the waveform.
C4_DivisorIsBits ==
    pc = "loop" =>
      LET seg == ((carrier_freq_hz * demo_duration_s) \div Len(data_vec))
                   * Oversampling
          i   == idx - 1
          e   == Min(i * Oversampling + seg, sample_points_s)
      IN  /\ mod_samples_per_bit = seg
          /\ bits_per_symbol_log2 = 1 =>
               seg = ((carrier_freq_hz * demo_duration_s) \div Len(rows))
                       * Oversampling
          /\ idx > 0 =>
               /\ \A k \in (i * Oversampling + 1)..e :
                     modulated_values_v[k].idx = i
               /\ e < sample_points_s => modulated_values_v[e + 1].idx # i

C4_Witness ==
    /\ pc = "loop"
    /\ op = "psk"
    /\ bits_per_symbol_log2 = 2
    /\ Len(data_vec) = 4
    /\ idx = 1
    /\ carrier_freq_hz * demo_duration_s = 8
    /\ mod_samples_per_bit = 2 * Oversampling
    /\ sample_points_s > 2 * Oversampling
    /\ modulated_values_v[2 * Oversampling].idx = 0
    /\ modulated_values_v[2 * Oversampling + 1] = Zero

\* C5: for a valid B and a bit sequence that is a multiple of B long, the
\* i-th symbol packed is the little-endian value of bits[i*B .. i*B+B-1]
\* (for qam: of the two half-groups in a row), symbols come in input order
\* and lie in 0..2^B-1.
C5_LittleEndianSymbols ==
    (Grouped /\ ValidB(op, bits_per_symbol_log2)) =>
      /\ Len(symbols) = idx
      /\ outcome = "returned" =>
           Len(symbols) * bits_per_symbol_log2 = Len(data_vec)
      /\ \A i \in 1..Len(symbols) :
           /\ symbols[i] = LittleEndian(data_vec,
                                        (i - 1) * bits_per_symbol_log2, 0,
                                        bits_per_symbol_log2)
           /\ symbols[i] \in 0..(Pow2(bits_per_symbol_log2) - 1)

C5_Witness ==
    /\ op = "qam"
    /\ bits_per_symbol_log2 = 4
    /\ data_vec = <<1, 0, 1, 1, 0, 0, 1, 0>>
    /\ outcome = "returned"
    /\ symbols = <<13, 4>>

\* C6: for B in 1..8 the ASK amplitude of symbol value v is (v + 1) / 2^B,
\* computed without wrap-around: at least 1 / 2^B and at most 1.
C6_AskAmplitude ==
    (op = "ask" /\ Grouped /\ bits_per_symbol_log2 \in 1..8) =>
      \A i \in 1..Len(mapped) :
        /\ mapped[i] = <<symbols[i] + 1, Pow2(bits_per_symbol_log2)>>
        /\ mapped[i][1] >= 1
        /\ mapped[i][1] <= mapped[i][2]

\* C7: in a qam call with B = 2 or B = 4 that satisfies the preconditions,
\* the value looked up for every symbol is a key of the constellation
\* table: the (0, 0) fallback is never returned.
C7_QamValueMapped ==
    (/\ op = "qam"
     /\ Grouped
     /\ bits_per_symbol_log2 \in {2, 4}
     /\ Len(data_vec) % bits_per_symbol_log2 = 0)
    => \A i \in 1..Len(modulated) :
         /\ modulated[i] \in QamKeys(Pow2(bits_per_symbol_log2))
         /\ mapped[i] # <<0, 0>>

\* C8: the configuration is consistent in every state: the stored carrier
\* frequency and duration are those the time base was built from,
\* sample_freq_hz = carrier_freq_hz * oversampling and
\* sample_period_s = 1 / sample_freq_hz.
C8_ConfigConsistent ==
    /\ carrier_freq_hz = arg_carrier_freq_hz
    /\ demo_duration_s = arg_demo_duration_s
    /\ sample_freq_hz = carrier_freq_hz * Oversampling
    /\ sample_period_s = <<1, sample_freq_hz>>

\* C9, as claimed: in a returned waveform every sample of a slot beyond the
\* first mod_samples_per_bit samples of the slot, and every sample beyond
\* the last symbol's slot, is still the initial zero.
C9_OnlySlotHeadsWritten ==
    (Grouped /\ outcome = "returned") =>
      \A k \in 0..(Len(ret) - 1) :
        (\/ k % Oversampling >= mod_samples_per_bit
         \/ k >= Len(rows) * Oversampling)
        => ret[k + 1] = Zero

\* C9, amended: a sample outside every symbol's range
\* [idx * oversampling, idx * oversampling + mod_samples_per_bit) is still
\* the initial zero; with 0 or 1 periods per symbol these are the samples
\* of a slot beyond the segment and the samples beyond the last slot, with
\* more periods a segment runs over the following slots and past the end of
\* the last slot.
C9_UnwrittenStayZero ==
    (Grouped /\ outcome = "returned") =>
      /\ \A k \in 0..(Len(ret) - 1) :
           Writers(k, Len(rows), mod_samples_per_bit) = {}
             => ret[k + 1] = Zero
      /\ mod_samples_per_bit <= Oversampling =>
           \A k \in 0..(Len(ret) - 1) :
             (\/ k % Oversampling >= mod_samples_per_bit
              \/ k >= Len(rows) * Oversampling)
             => ret[k + 1] = Zero

C9_Witness ==
    /\ Grouped
    /\ outcome = "returned"
    /\ Len(rows) = 4
    /\ mod_samples_per_bit = 2 * Oversampling
    /\ Len(ret) > 5 * Oversampling
    /\ ret[5 * Oversampling] # Zero
    /\ ret[5 * Oversampling + 1] = Zero

\* C10: symbols are written in increasing index order, each to
\* [idx * oversampling, idx * oversampling + mod_samples_per_bit) clipped
\* to the waveform, a later segment overwriting the tail of the earlier
\* ones: after idx symbols, sample k carries the value synthesised for the
\* largest symbol index below idx whose range holds k, or zero if none.
C10_LastWriterWins ==
    Grouped =>
      LET arr == IF pc = "loop" THEN modulated_values_v ELSE ret
      IN  \A k \in 0..(Len(arr) - 1) :
            LET W == Writers(k, idx, mod_samples_per_bit)
            IN  IF W = {} THEN arr[k + 1] = Zero
                ELSE /\ arr[k + 1].kind = op
                     /\ arr[k + 1].idx = Largest(W)
                     /\ arr[k + 1].p = mapped[Largest(W) + 1]

C10_Witness ==
    /\ op = "ask"
    /\ data_vec = <<0, 1, 1, 0>>
    /\ bits_per_symbol_log2 = 1
    /\ carrier_freq_hz * demo_duration_s = 8
    /\ outcome = "returned"
    /\ Len(ret) > 5 * Oversampling
    /\ \A k \in 0..31 : ret[k + 1].idx = 0 /\ ret[k + 1].p = <<1, 2>>
    /\ \A k \in 32..63 : ret[k + 1].idx = 1 /\ ret[k + 1].p = <<2, 2>>
    /\ \A k \in 64..95 : ret[k + 1].idx = 2 /\ ret[k + 1].p = <<2, 2>>
    /\ \A k \in 96..159 : ret[k + 1].idx = 3 /\ ret[k + 1].p = <<1, 2>>
    /\ ret[161] = Zero

====
